---- MODULE Spec2Model ----
(***************************************************************************)
(* rusted-cypher: the transaction protocol layer.                          *)
(*                                                                         *)
(* Client side: Transaction<Created> / Transaction<Started> handles        *)
(* (src/src/cypher/transaction.rs) and the auto-commit CypherQuery         *)
(* (src/src/cypher/mod.rs).  Server side: a Neo4j HTTP endpoint, modelled  *)
(* as a nondeterministic choice of the response to each request.           *)
(***************************************************************************)
EXTENDS Integers, Sequences, FiniteSets, TLC

\* ---------------------------------------------------------------- bounds
\* Longest pending statement buffer.
MaxStmts == 2
\* Expiry instants are 0..MaxTime.
MaxTime == 1
\* Most parameters handed to one cypher_stmt! invocation.
MaxParams == 2
\* Most rows in the data of one CypherResult.
MaxRows == 2

\* ------------------------------------------------------------- universes
\* The two client-side transaction handles of the model.
TxIds == {"t1", "t2"}
\* Opaque statements (text plus parameters); two, so that order is visible.
Statements == {"s1", "s2"}
\* Structured errors the server can report, in the order it reports them.
ErrorLists == {<< >>, <<"e1">>, <<"e1", "e2">>}
Times == 0..MaxTime

NoStmt == "none"
NoUri == [path |-> "none", id |-> 0]
\* The transaction-create endpoint handed to Transaction::new.
Endpoint == [path |-> "transaction", id |-> 0]
\* The server-side transaction resource n and its commit URI.
TxUri(n) == [path |-> "transaction", id |-> n]
CommitUri(n) == [path |-> "commit", id |-> n]
\* The header set handed to Transaction::new / Cypher::new.
Headers == "auth-json"
NoHeaders == "none"

\* The CypherResult the server computes for one statement.
Answer(s) == [answers |-> s]
Answers(stmts) == [i \in 1..Len(stmts) |-> Answer(stmts[i])]
Prefixes(s) == {SubSeq(s, 1, k) : k \in 0..Len(s)}

\* -------------------------------------------------------- wire: responses
\* transaction.expires as sent: text that strptime accepts (wall = the
\* instant it denotes) or text it rejects.
ExpiresWire == {[ok |-> FALSE, wall |-> 0]} \cup {[ok |-> TRUE, wall |-> w] : w \in Times}
NoExpires == [ok |-> FALSE, wall |-> 0]

\* The fields a TransactionResult needs, and those a CommitResult or a
\* QueryResult needs.
TransactionResultFields == {"commit", "transaction", "results", "errors"}
CommitResultFields == {"results", "errors"}
QueryResultFields == {"results", "errors"}

\* Shapes of a JSON object the server may answer with: the full
\* transaction envelope, the envelope without `transaction`, the plain
\* {results, errors} envelope, and an object with `errors` only.
FieldSets == {TransactionResultFields, {"commit", "results", "errors"}, {"results", "errors"}, {"errors"}}

\* A body that is not JSON.
Garbage == [json |-> FALSE, fields |-> {}, results |-> << >>, errors |-> << >>, commit |-> NoUri, expires |-> NoExpires]

\* The JSON bodies a server may send in answer to `stmts`: it reports the
\* results of a prefix of the statements and any error list.
JsonBodies(stmts, commitUri) ==
  UNION { { [json |-> TRUE, fields |-> f, results |-> r, errors |-> e, commit |-> c, expires |-> x] :
              r \in (IF "results" \in f THEN Prefixes(Answers(stmts)) ELSE {<< >>}),
              e \in ErrorLists,
              c \in (IF "commit" \in f THEN {commitUri} ELSE {NoUri}),
              x \in (IF "transaction" \in f THEN ExpiresWire ELSE {NoExpires}) }
          : f \in FieldSets }

\* A response: the transport may fail (net = FALSE); otherwise headers and body.
NetFail == [net |-> FALSE, location |-> NoUri, body |-> Garbage]
Responses(stmts, locations, commitUri) ==
  {NetFail} \cup
  { [net |-> TRUE, location |-> l, body |-> b] :
      l \in locations, b \in {Garbage} \cup JsonBodies(stmts, commitUri) }

\* The responses of a server that accepts every statement and answers in
\* the full transaction envelope with one result per statement (the
\* network may still fail, and the Location header may still be missing).
SoundResponses(stmts, locations, commitUri) ==
  {NetFail} \cup
  { [net |-> TRUE, location |-> l,
     body |-> [json |-> TRUE, fields |-> TransactionResultFields, results |-> Answers(stmts),
               errors |-> << >>, commit |-> commitUri, expires |-> [ok |-> TRUE, wall |-> w]]] :
      l \in locations, w \in Times }

\* ----------------------------------------------------------------- results
Ok(results) == [kind |-> "Ok", errors |-> << >>, results |-> results]
Err(kind) == [kind |-> kind, errors |-> << >>, results |-> << >>]
Neo4j(errors) == [kind |-> "Neo4j", errors |-> errors, results |-> << >>]

\* time::strptime(expires, DATETIME_RFC822)
strptime(x) == IF x.ok THEN [kind |-> "Ok", tm |-> x.wall] ELSE [kind |-> "TimeParse", tm |-> 0]

\* parse_response taking a body that is not JSON for an empty answer.
parse_response_GarbageIsEmpty(body, fieldsOfT) ==
  IF ~body.json THEN Ok(<< >>)
  ELSE IF ~(fieldsOfT \subseteq body.fields) THEN Err("Serde")
  ELSE IF Len(body.errors) > 0 THEN Neo4j(body.errors)
  ELSE Ok(body.results)

\* parse_response::<T>: JSON syntax, then the typed decode into T, then
\* the check of the decoded errors list.
parse_response(body, fieldsOfT) ==
  IF ~body.json THEN Err("Serde")
  ELSE IF ~(fieldsOfT \subseteq body.fields) THEN Err("Serde")
  ELSE IF Len(body.errors) > 0 THEN Neo4j(body.errors)
  ELSE Ok(body.results)

Reverse(seq) == [i \in 1..Len(seq) |-> seq[Len(seq) + 1 - i]]

\* send_query serializing the statements last-added first.
send_query_Reversed(endpoint, headers, statements) ==
  [method |-> "POST", uri |-> endpoint, headers |-> headers, body |-> Reverse(statements)]

\* send_query: the request it builds.
send_query(endpoint, headers, statements) ==
  [method |-> "POST", uri |-> endpoint, headers |-> headers, body |-> statements]

NoReq == [method |-> "none", uri |-> NoUri, headers |-> NoHeaders, body |-> << >>]

\* ----------------------------------------------------------------- handles
\* A handle that does not exist: not yet constructed, or moved out.
Gone(state) ==
  [state |-> state, transaction |-> NoUri, commit |-> NoUri, expires |-> 0,
   statements |-> << >>, headers |-> NoHeaders]

\* Transaction::new(endpoint, headers)
new(endpoint, headers, now) ==
  [state |-> "Created", transaction |-> endpoint, commit |-> endpoint, expires |-> now,
   statements |-> << >>, headers |-> headers]

\* add_statement putting the new statement in front of the buffer.
add_statement_Prepend(self, statement) ==
  [self EXCEPT !.statements = <<statement>> \o @]

\* Transaction::add_statement
add_statement(self, statement) ==
  [self EXCEPT !.statements = Append(@, statement)]

\* Transaction<Created>::with_statement / Transaction<Started>::with_statement
with_statement(self, statement) == add_statement(self, statement)

\* begin opening the transaction with an empty request, the statements
\* added before it left behind.
begin_req_NoStatements(self) == send_query(self.transaction, self.headers, << >>)

\* Transaction<Created>::begin: the request it posts.
begin_req(self) == send_query(self.transaction, self.headers, self.statements)

\* begin taking a missing Location header for the empty string, as the
\* first Transaction::begin of the repository did.
begin_EmptyLocation(self, resp) ==
  LET parsed == parse_response(resp.body, TransactionResultFields)
      expires == strptime(resp.body.expires)
  IN  IF ~resp.net THEN [out |-> Err("Hyper"), self |-> Gone("Consumed")]
      ELSE IF parsed.kind # "Ok" THEN [out |-> parsed, self |-> Gone("Consumed")]
      ELSE IF expires.kind # "Ok" THEN [out |-> Err("TimeParse"), self |-> Gone("Consumed")]
      ELSE [out |-> Ok(resp.body.results),
            self |-> [state |-> "Started", transaction |-> resp.location,
                      commit |-> resp.body.commit, expires |-> expires.tm,
                      statements |-> << >>, headers |-> self.headers]]

\* begin looking for the Location header before it decodes the body.
begin_LocationFirst(self, resp) ==
  LET parsed == parse_response(resp.body, TransactionResultFields)
      expires == strptime(resp.body.expires)
  IN  IF ~resp.net THEN [out |-> Err("Hyper"), self |-> Gone("Consumed")]
      ELSE IF resp.location = NoUri THEN [out |-> Err("Transaction"), self |-> Gone("Consumed")]
      ELSE IF parsed.kind # "Ok" THEN [out |-> parsed, self |-> Gone("Consumed")]
      ELSE IF expires.kind # "Ok" THEN [out |-> Err("TimeParse"), self |-> Gone("Consumed")]
      ELSE [out |-> Ok(resp.body.results),
            self |-> [state |-> "Started", transaction |-> resp.location,
                      commit |-> resp.body.commit, expires |-> expires.tm,
                      statements |-> << >>, headers |-> self.headers]]

\* begin keeping the endpoint it was constructed with as the resource URI.
begin_KeepsEndpoint(self, resp) ==
  LET parsed == parse_response(resp.body, TransactionResultFields)
      expires == strptime(resp.body.expires)
  IN  IF ~resp.net THEN [out |-> Err("Hyper"), self |-> Gone("Consumed")]
      ELSE IF parsed.kind # "Ok" THEN [out |-> parsed, self |-> Gone("Consumed")]
      ELSE IF resp.location = NoUri THEN [out |-> Err("Transaction"), self |-> Gone("Consumed")]
      ELSE IF expires.kind # "Ok" THEN [out |-> Err("TimeParse"), self |-> Gone("Consumed")]
      ELSE [out |-> Ok(resp.body.results),
            self |-> [state |-> "Started", transaction |-> self.transaction,
                      commit |-> resp.body.commit, expires |-> expires.tm,
                      statements |-> << >>, headers |-> self.headers]]

\* begin borrowing the handle, so that the caller keeps the Created handle
\* and its statements when begin fails.
begin_KeepsHandleOnFailure(self, resp) ==
  LET parsed == parse_response(resp.body, TransactionResultFields)
      expires == strptime(resp.body.expires)
  IN  IF ~resp.net THEN [out |-> Err("Hyper"), self |-> self]
      ELSE IF parsed.kind # "Ok" THEN [out |-> parsed, self |-> self]
      ELSE IF resp.location = NoUri THEN [out |-> Err("Transaction"), self |-> self]
      ELSE IF expires.kind # "Ok" THEN [out |-> Err("TimeParse"), self |-> self]
      ELSE [out |-> Ok(resp.body.results),
            self |-> [state |-> "Started", transaction |-> resp.location,
                      commit |-> resp.body.commit, expires |-> expires.tm,
                      statements |-> << >>, headers |-> self.headers]]

\* Transaction<Created>::begin: the handle is moved in; on success a
\* Started handle comes back with the results.
begin(self, resp) ==
  LET parsed == parse_response(resp.body, TransactionResultFields)
      expires == strptime(resp.body.expires)
  IN  IF ~resp.net THEN [out |-> Err("Hyper"), self |-> Gone("Consumed")]
      ELSE IF parsed.kind # "Ok" THEN [out |-> parsed, self |-> Gone("Consumed")]
      ELSE IF resp.location = NoUri THEN [out |-> Err("Transaction"), self |-> Gone("Consumed")]
      ELSE IF expires.kind # "Ok" THEN [out |-> Err("TimeParse"), self |-> Gone("Consumed")]
      ELSE [out |-> Ok(resp.body.results),
            self |-> [state |-> "Started", transaction |-> resp.location,
                      commit |-> resp.body.commit, expires |-> expires.tm,
                      statements |-> << >>, headers |-> self.headers]]

\* send posting to the commit URI, as Transaction::query of
\* src/src/transaction.rs does.
\* send refusing to contact the server once the kept expiry is not the
\* latest instant any more.
send_req_RefusesExpired(self) ==
  IF self.expires < MaxTime THEN NoReq
  ELSE send_query(self.transaction, self.headers, self.statements)

send_req_ToCommit(self) == send_query(self.commit, self.headers, self.statements)

\* Transaction<Started>::send: the request it posts (the buffer is swapped
\* out into the request).
send_req(self) == send_query(self.transaction, self.headers, self.statements)

\* send never moving expires backwards.
send_KeepsLaterExpiry(self, resp) ==
  LET swapped == [self EXCEPT !.statements = << >>]
      parsed == parse_response(resp.body, TransactionResultFields)
      expires == strptime(resp.body.expires)
  IN  IF ~resp.net THEN [out |-> Err("Hyper"), self |-> swapped]
      ELSE IF parsed.kind # "Ok" THEN [out |-> parsed, self |-> swapped]
      ELSE IF expires.kind # "Ok" THEN [out |-> Err("TimeParse"), self |-> swapped]
      ELSE [out |-> Ok(resp.body.results),
            self |-> [swapped EXCEPT !.expires = IF expires.tm > @ THEN expires.tm ELSE @]]

\* send putting the statements back in the buffer when the call fails.
\* send adopting the commit URI of the response it decoded.
send_AdoptsCommit(self, resp) ==
  LET swapped == [self EXCEPT !.statements = << >>]
      parsed == parse_response(resp.body, TransactionResultFields)
      expires == strptime(resp.body.expires)
  IN  IF ~resp.net THEN [out |-> Err("Hyper"), self |-> swapped]
      ELSE IF parsed.kind # "Ok" THEN [out |-> parsed, self |-> swapped]
      ELSE IF expires.kind # "Ok" THEN [out |-> Err("TimeParse"), self |-> swapped]
      ELSE [out |-> Ok(resp.body.results),
            self |-> [swapped EXCEPT !.expires = expires.tm, !.commit = resp.body.commit]]

send_KeepsBufferOnError(self, resp) ==
  LET swapped == [self EXCEPT !.statements = << >>]
      parsed == parse_response(resp.body, TransactionResultFields)
      expires == strptime(resp.body.expires)
  IN  IF ~resp.net THEN [out |-> Err("Hyper"), self |-> self]
      ELSE IF parsed.kind # "Ok" THEN [out |-> parsed, self |-> self]
      ELSE IF expires.kind # "Ok" THEN [out |-> Err("TimeParse"), self |-> self]
      ELSE [out |-> Ok(resp.body.results), self |-> [swapped EXCEPT !.expires = expires.tm]]

\* Transaction<Started>::send
send(self, resp) ==
  LET swapped == [self EXCEPT !.statements = << >>]
      parsed == parse_response(resp.body, TransactionResultFields)
      expires == strptime(resp.body.expires)
  IN  IF ~resp.net THEN [out |-> Err("Hyper"), self |-> swapped]
      ELSE IF parsed.kind # "Ok" THEN [out |-> parsed, self |-> swapped]
      ELSE IF expires.kind # "Ok" THEN [out |-> Err("TimeParse"), self |-> swapped]
      ELSE [out |-> Ok(resp.body.results), self |-> [swapped EXCEPT !.expires = expires.tm]]

\* exec without the clear(): the given statement joins the buffer.
exec_prepare_NoClear(self, statement) == add_statement(self, statement)

\* Transaction<Started>::exec, before it calls send: clear the buffer and
\* add the given statement.
exec_prepare(self, statement) ==
  add_statement([self EXCEPT !.statements = << >>], statement)

exec_req(self, statement) == send_req(exec_prepare(self, statement))

\* Transaction<Started>::exec: send, then pop the last result.
exec(self, statement, resp) ==
  LET sent == send(exec_prepare(self, statement), resp)
      results == sent.out.results
  IN  IF sent.out.kind # "Ok" THEN sent
      ELSE IF Len(results) = 0 THEN [out |-> Err("Statement"), self |-> sent.self]
      ELSE [out |-> Ok(<<results[Len(results)]>>), self |-> sent.self]

\* commit posting to the transaction resource, where the server runs the
\* statements and keeps the transaction open.
commit_req_ToResource(self) == send_query(self.transaction, self.headers, self.statements)

\* Transaction<Started>::commit: the request it posts.
commit_req(self) == send_query(self.commit, self.headers, self.statements)

\* commit handing the handle back when the commit failed.
commit_ReturnsHandleOnError(self, resp) ==
  LET parsed == parse_response(resp.body, CommitResultFields)
  IN  IF ~resp.net THEN [out |-> Err("Hyper"), self |-> self]
      ELSE IF parsed.kind # "Ok" THEN [out |-> parsed, self |-> self]
      ELSE [out |-> parsed, self |-> Gone("Consumed")]

\* commit borrowing the handle (&mut self) instead of taking it.
commit_BorrowsHandle(self, resp) ==
  LET parsed == parse_response(resp.body, CommitResultFields)
  IN  IF ~resp.net THEN [out |-> Err("Hyper"), self |-> self]
      ELSE [out |-> parsed, self |-> self]

\* Transaction<Started>::commit: the handle is moved in and not returned.
commit(self, resp) ==
  LET parsed == parse_response(resp.body, CommitResultFields)
  IN  IF ~resp.net THEN [out |-> Err("Hyper"), self |-> Gone("Consumed")]
      ELSE [out |-> parsed, self |-> Gone("Consumed")]

\* rollback posting an empty commit instead of deleting the resource.
rollback_req_PostsCommit(self) == send_query(self.commit, self.headers, << >>)

\* Transaction<Started>::rollback: the request it issues.
rollback_req(self) ==
  [method |-> "DELETE", uri |-> self.transaction, headers |-> self.headers, body |-> << >>]

\* rollback dropping the response unread, as reset_timeout does.
rollback_IgnoresBody(self, resp) ==
  IF ~resp.net THEN [out |-> Err("Hyper"), self |-> Gone("Consumed")]
  ELSE [out |-> Ok(<< >>), self |-> Gone("Consumed")]

\* Transaction<Started>::rollback: the handle is moved in and not returned.
rollback(self, resp) ==
  LET parsed == parse_response(resp.body, CommitResultFields)
  IN  IF ~resp.net THEN [out |-> Err("Hyper"), self |-> Gone("Consumed")]
      ELSE IF parsed.kind # "Ok" THEN [out |-> parsed, self |-> Gone("Consumed")]
      ELSE [out |-> Ok(<< >>), self |-> Gone("Consumed")]

\* Transaction<Started>::reset_timeout: the request it posts.
reset_timeout_req(self) == send_query(self.transaction, self.headers, << >>)

\* Transaction<Started>::reset_timeout: the response is dropped unread.
reset_timeout(self, resp) ==
  IF ~resp.net THEN [out |-> Err("Hyper"), self |-> self]
  ELSE [out |-> Ok(<< >>), self |-> self]

\* ------------------------------------------------------------ CypherQuery
\* format!("{}/{}", endpoint, "commit"): the auto-commit endpoint.
CommitEndpoint == [path |-> "commit", id |-> 0]

NoQuery == [live |-> FALSE, statements |-> << >>]

\* Cypher::query
query == [live |-> TRUE, statements |-> << >>]

\* CypherQuery::add_statement
query_add_statement(self, statement) ==
  [self EXCEPT !.statements = Append(@, statement)]

\* CypherQuery::with_statement
query_with_statement(self, statement) == query_add_statement(self, statement)

\* set_statements adding the given statements to those already there.
query_set_statements_Extends(self, statements) ==
  [self EXCEPT !.statements = @ \o statements]

\* CypherQuery::set_statements
query_set_statements(self, statements) == [self EXCEPT !.statements = statements]

\* CypherQuery::send: the request it posts.
query_send_req(self) == send_query(CommitEndpoint, Headers, self.statements)

\* CypherQuery::send: the query is moved in and not returned.
query_send(self, resp) ==
  LET parsed == parse_response(resp.body, QueryResultFields)
  IN  IF ~resp.net THEN [out |-> Err("Hyper"), self |-> NoQuery]
      ELSE IF parsed.kind # "Ok" THEN [out |-> parsed, self |-> NoQuery]
      ELSE IF Len(resp.body.errors) > 0 THEN [out |-> Neo4j(resp.body.errors), self |-> NoQuery]
      ELSE [out |-> Ok(resp.body.results), self |-> NoQuery]

\* Cypher::exec: the request it posts, a fresh CypherQuery holding the
\* given statement alone.
cypher_exec_req(statement) == query_send_req(query_add_statement(query, statement))

\* Cypher::exec handing out an empty result when the server reports none.
cypher_exec_EmptyDefault(statement, resp) ==
  LET sent == query_send(query_add_statement(query, statement), resp)
  IN  IF sent.out.kind # "Ok" THEN sent.out ELSE Ok(sent.out.results)

\* Cypher::exec: send the one-statement query, then pop the last result;
\* GraphError::new(message) is the message-only error ("Other").
cypher_exec(statement, resp) ==
  LET sent == query_send(query_add_statement(query, statement), resp)
      results == sent.out.results
  IN  IF sent.out.kind # "Ok" THEN sent.out
      ELSE IF Len(results) = 0 THEN Err("Other")
      ELSE Ok(<<results[Len(results)]>>)

\* -------------------------------------------------------------- Statement
\* Parameter names.
Keys == {"k1", "k2"}
\* Statement texts.
Texts == {"q1", "q2"}
\* Rust values handed to add_param / with_param: a string, an i32, a finite
\* f64, the f64 NaN, and a value whose Serialize implementation fails.
RustValues ==
  {[type |-> "String", val |-> "a"], [type |-> "i32", val |-> "1"],
   [type |-> "f64", val |-> "1.5"], [type |-> "f64", val |-> "NaN"],
   [type |-> "Opaque", val |-> "x"]}
\* The target types T of param::<T>.
Types == {"String", "i32", "f64"}
NoValue == [type |-> "none", val |-> ""]

\* serde_json::Value: a string, a number kept as an integer or as a float,
\* or null; NoParam marks a key that the BTreeMap does not hold.
NoParam == [json |-> "Absent", repr |-> "none", text |-> ""]
JsonNull == [json |-> "Null", repr |-> "none", text |-> "null"]

\* serde_json::value::to_value: a float that is not finite becomes null.
to_value(v) ==
  CASE v.type = "String" -> [ok |-> TRUE, value |-> [json |-> "String", repr |-> "none", text |-> v.val]]
    [] v.type = "i32" -> [ok |-> TRUE, value |-> [json |-> "Number", repr |-> "int", text |-> v.val]]
    [] v.type = "f64" /\ v.val # "NaN" -> [ok |-> TRUE, value |-> [json |-> "Number", repr |-> "float", text |-> v.val]]
    [] v.type = "f64" /\ v.val = "NaN" -> [ok |-> TRUE, value |-> JsonNull]
    [] OTHER -> [ok |-> FALSE, value |-> NoParam]

\* serde_json::value::from_value::<T>: a string for String, an integer
\* number for i32, any number for f64.
from_value(T, j) ==
  CASE T = "String" /\ j.json = "String" -> [ok |-> TRUE, value |-> [type |-> T, val |-> j.text]]
    [] T = "i32" /\ j.json = "Number" /\ j.repr = "int" -> [ok |-> TRUE, value |-> [type |-> T, val |-> j.text]]
    [] T = "f64" /\ j.json = "Number" -> [ok |-> TRUE, value |-> [type |-> T, val |-> j.text]]
    [] OTHER -> [ok |-> FALSE, value |-> NoValue]

NoStatement == [live |-> FALSE, statement |-> "", parameters |-> [k \in Keys |-> NoParam]]

\* Statement::new
statement_new(text) == [live |-> TRUE, statement |-> text, parameters |-> [k \in Keys |-> NoParam]]

\* add_param leaving a key that is already set as it is.
add_param_KeepsFirst(self, key, value) ==
  LET json == to_value(value)
  IN  IF ~json.ok THEN [ok |-> FALSE, self |-> self]
      ELSE IF self.parameters[key] # NoParam THEN [ok |-> TRUE, self |-> self]
      ELSE [ok |-> TRUE, self |-> [self EXCEPT !.parameters[key] = json.value]]

\* add_param swallowing the serialization error: Ok(()) with nothing stored.
add_param_DropsSilently(self, key, value) ==
  LET json == to_value(value)
  IN  IF ~json.ok THEN [ok |-> TRUE, self |-> self]
      ELSE [ok |-> TRUE, self |-> [self EXCEPT !.parameters[key] = json.value]]

\* Statement::add_param: serialize the value, then insert it under the key.
add_param(self, key, value) ==
  LET json == to_value(value)
  IN  IF ~json.ok THEN [ok |-> FALSE, self |-> self]
      ELSE [ok |-> TRUE, self |-> [self EXCEPT !.parameters[key] = json.value]]

\* Statement::with_param: the statement is moved in, and lost on an error.
with_param(self, key, value) ==
  LET added == add_param(self, key, value)
  IN  IF added.ok THEN added ELSE [ok |-> FALSE, self |-> NoStatement]

\* param answering a key that is not there with Some(Err(_)).
param_ErrOnMissing(self, key, T) ==
  LET decoded == from_value(T, self.parameters[key])
  IN  [some |-> TRUE, ok |-> decoded.ok, value |-> decoded.value]

\* Statement::param::<T>: None, Some(Err(_)) or Some(Ok(value)).
param(self, key, T) ==
  IF self.parameters[key] = NoParam THEN [some |-> FALSE, ok |-> FALSE, value |-> NoValue]
  ELSE LET decoded == from_value(T, self.parameters[key])
       IN  [some |-> TRUE, ok |-> decoded.ok, value |-> decoded.value]

\* From<T> for Statement handing out a statement without its text.
statement_from_Blank(text) == statement_new("")

\* impl From<T: Into<String>> for Statement: Statement::new(stmt)
statement_from(text) == statement_new(text)

\* set_parameters keeping the entries whose keys the new map does not name.
\* set_parameters inserting into the statement's own map after clearing
\* it, so that a failure leaves what was inserted before it.
set_parameters_InPlace(self, params) ==
  IF \E k \in Keys : params[k] # NoValue /\ ~to_value(params[k]).ok
  THEN [ok |-> FALSE,
        self |-> [self EXCEPT !.parameters =
                    [k \in Keys |-> IF params[k] # NoValue /\ to_value(params[k]).ok
                                       /\ \A j \in Keys : (params[j] # NoValue /\ ~to_value(params[j]).ok)
                                                             => k # j
                                    THEN to_value(params[k]).value ELSE NoParam]]]
  ELSE [ok |-> TRUE,
        self |-> [self EXCEPT !.parameters =
                    [k \in Keys |-> IF params[k] = NoValue THEN NoParam
                                    ELSE to_value(params[k]).value]]]

set_parameters_Merges(self, params) ==
  IF \E k \in Keys : params[k] # NoValue /\ ~to_value(params[k]).ok
  THEN [ok |-> FALSE, self |-> self]
  ELSE [ok |-> TRUE,
        self |-> [self EXCEPT !.parameters =
                    [k \in Keys |-> IF params[k] = NoValue THEN self.parameters[k]
                                    ELSE to_value(params[k]).value]]]

\* Statement::set_parameters: serialize every entry of the given map (a key
\* it lacks maps to NoValue here); the statement's map is replaced only
\* when none failed.
set_parameters(self, params) ==
  IF \E k \in Keys : params[k] # NoValue /\ ~to_value(params[k]).ok
  THEN [ok |-> FALSE, self |-> self]
  ELSE [ok |-> TRUE,
        self |-> [self EXCEPT !.parameters =
                    [k \in Keys |-> IF params[k] = NoValue THEN NoParam
                                    ELSE to_value(params[k]).value]]]

\* remove_param clearing the whole map.
remove_param_Clears(self, key) == [self EXCEPT !.parameters = [k \in Keys |-> NoParam]]

\* Statement::remove_param
remove_param(self, key) == [self EXCEPT !.parameters[key] = NoParam]

\* cypher_stmt! going on after a failed add_param and handing out the
\* statement with the parameters that could be added.
RECURSIVE cypher_stmt_add_SkipsFailures(_, _, _)
cypher_stmt_add_SkipsFailures(self, pairs, i) ==
  IF i > Len(pairs) THEN [ok |-> TRUE, self |-> self, calls |-> Len(pairs)]
  ELSE cypher_stmt_add_SkipsFailures(add_param(self, pairs[i].key, pairs[i].value).self, pairs, i + 1)

cypher_stmt_SkipsFailures(text, pairs) == cypher_stmt_add_SkipsFailures(statement_new(text), pairs, 1)

\* cypher_stmt!: add the pairs in order until one fails; a statement comes
\* back only when none failed. `calls` counts the add_param calls made.
RECURSIVE cypher_stmt_add(_, _, _)
cypher_stmt_add(self, pairs, i) ==
  IF i > Len(pairs) THEN [ok |-> TRUE, self |-> self, calls |-> Len(pairs)]
  ELSE LET added == add_param(self, pairs[i].key, pairs[i].value)
       IN  IF ~added.ok THEN [ok |-> FALSE, self |-> NoStatement, calls |-> i]
           ELSE cypher_stmt_add(added.self, pairs, i + 1)

cypher_stmt(text, pairs) == cypher_stmt_add(statement_new(text), pairs, 1)

\* ----------------------------------------------------------- CypherResult
\* Column names; "c" is never a column of a result.
Names == {"a", "b", "c"}
\* The column lists of the results (a name may occur twice).
ColumnLists == {<< >>, <<"a">>, <<"a", "b">>, <<"b", "b">>}
JsonA == [json |-> "String", repr |-> "none", text |-> "a"]
JsonOne == [json |-> "Number", repr |-> "int", text |-> "1"]
\* The rows the server may send: RowResult.row, as many values as it likes.
RowResults == {<< >>, <<JsonA>>, <<JsonOne, JsonA>>}
\* The data lists of the results.
DataLists == UNION { [1..n -> RowResults] : n \in 0..MaxRows }
\* The CypherResults a response may decode to.
CypherResults == [columns : ColumnLists, data : DataLists]
NoResult == [columns |-> << >>, data |-> << >>]

\* Outcomes of Row::get / Row::get_n.
Got(value) == [kind |-> "Ok", message |-> "", value |-> value]
NoSuchColumn == [kind |-> "Statement", message |-> "No such column", value |-> NoValue]
NoColumnAtIndex == [kind |-> "Statement", message |-> "No column at index", value |-> NoValue]
DecodeError == [kind |-> "Serde", message |-> "", value |-> NoValue]

\* Row::new
Row_new(columns, data) == [live |-> TRUE, columns |-> columns, data |-> data]
NoRow == [live |-> FALSE, columns |-> << >>, data |-> << >>]

\* Rows::new
Rows_new(columns, data) == [live |-> TRUE, current_index |-> 0, columns |-> columns, data |-> data]
NoRows == [live |-> FALSE, current_index |-> 0, columns |-> << >>, data |-> << >>]

\* CypherResult::rows
rows(self) == Rows_new(self.columns, self.data)

\* next running past the end: the index moves although no row is there.
Rows_next_CountsPastEnd(self) ==
  IF self.current_index < Len(self.data)
  THEN [item |-> Row_new(self.columns, self.data[self.current_index + 1]),
        self |-> [self EXCEPT !.current_index = @ + 1]]
  ELSE [item |-> Row_new(self.columns, << >>), self |-> [self EXCEPT !.current_index = @ + 1]]

\* Iterator::next for Rows: data.get(current_index), the index moving on
\* only when a row is there.
Rows_next(self) ==
  IF self.current_index < Len(self.data)
  THEN [item |-> Row_new(self.columns, self.data[self.current_index + 1]),
        self |-> [self EXCEPT !.current_index = @ + 1]]
  ELSE [item |-> NoRow, self |-> self]

\* get_n taking a value that is not there for one that does not decode.
get_n_NullOutOfRange(self, column, T) ==
  IF column < Len(self.data)
  THEN (IF from_value(T, self.data[column + 1]).ok
        THEN Got(from_value(T, self.data[column + 1]).value) ELSE DecodeError)
  ELSE DecodeError

\* Row::get_n: the value at the 0-based index, decoded to T.
get_n(self, column, T) ==
  IF column < Len(self.data)
  THEN (IF from_value(T, self.data[column + 1]).ok
        THEN Got(from_value(T, self.data[column + 1]).value) ELSE DecodeError)
  ELSE NoColumnAtIndex

\* position answering the last occurrence of the name.
position_Last(columns, column) ==
  IF \E i \in 1..Len(columns) : columns[i] = column
  THEN (CHOOSE i \in 1..Len(columns) :
          columns[i] = column /\ \A j \in (i + 1)..Len(columns) : columns[j] # column) - 1
  ELSE -1

\* columns.iter().position(|c| c == column): 0-based, -1 for None.
position(columns, column) ==
  IF \E i \in 1..Len(columns) : columns[i] = column
  THEN (CHOOSE i \in 1..Len(columns) :
          columns[i] = column /\ \A j \in 1..(i - 1) : columns[j] # column) - 1
  ELSE -1

\* get taking a name that is not a column for the first column.
get_FirstOnMissing(self, column, T) ==
  IF position(self.columns, column) >= 0 THEN get_n(self, position(self.columns, column), T)
  ELSE get_n(self, 0, T)

\* Row::get: look the name up in the columns, then get_n.
get(self, column, T) ==
  IF position(self.columns, column) >= 0 THEN get_n(self, position(self.columns, column), T)
  ELSE NoSuchColumn

\* send_query sending the request again when the transport fails.
exchanges_Retry(req, resp) == IF resp.net THEN <<req>> ELSE <<req, req>>

\* The HTTP exchanges of one call that reaches send_query (or the DELETE of
\* rollback): the request is sent once, whatever comes back.
exchanges(req, resp) == <<req>>

\* ------------------------------------- Transaction of src/transaction.rs
\* send_query of transaction.rs: what it hands back for a response. The
\* body is read as JSON, decoded as QueryResult (commit, transaction,
\* results, errors), then the errors are looked at; a missing Location
\* header gives the empty URI.
legacy_send_query(resp) ==
  IF ~resp.net THEN [out |-> Err("Hyper"), location |-> NoUri]
  ELSE [out |-> parse_response(resp.body, TransactionResultFields), location |-> resp.location]

\* Transaction::begin(endpoint, headers, statements)
legacy_begin_req(endpoint, headers, statements) == send_query(endpoint, headers, statements)

legacy_begin(headers, resp) ==
  LET sent == legacy_send_query(resp)
      expires == strptime(resp.body.expires)
  IN  IF sent.out.kind # "Ok" THEN [out |-> sent.out, self |-> Gone("Absent")]
      ELSE IF expires.kind # "Ok" THEN [out |-> Err("TimeParse"), self |-> Gone("Absent")]
      ELSE [out |-> Ok(resp.body.results),
            self |-> [state |-> "Started", transaction |-> sent.location,
                      commit |-> resp.body.commit, expires |-> expires.tm,
                      statements |-> << >>, headers |-> headers]]

\* Transaction::query(statements): the request goes to self.commit.
legacy_query_req(self, statements) == send_query(self.commit, self.headers, statements)

legacy_query(self, resp) ==
  LET sent == legacy_send_query(resp)
      expires == strptime(resp.body.expires)
  IN  IF sent.out.kind # "Ok" THEN [out |-> sent.out, self |-> self]
      ELSE IF expires.kind # "Ok" THEN [out |-> Err("TimeParse"), self |-> self]
      ELSE [out |-> Ok(resp.body.results), self |-> [self EXCEPT !.expires = expires.tm]]

\* Transaction::commit(self, statements)
legacy_commit_req(self, statements) == send_query(self.commit, self.headers, statements)

legacy_commit(self, resp) ==
  IF ~resp.net THEN [out |-> Err("Hyper"), self |-> Gone("Consumed")]
  ELSE [out |-> parse_response(resp.body, CommitResultFields), self |-> Gone("Consumed")]

\* Transaction::rollback(self)
legacy_rollback_req(self) ==
  [method |-> "DELETE", uri |-> self.transaction, headers |-> self.headers, body |-> << >>]

legacy_rollback(self, resp) ==
  LET parsed == parse_response(resp.body, CommitResultFields)
  IN  IF ~resp.net THEN [out |-> Err("Hyper"), self |-> Gone("Consumed")]
      ELSE IF parsed.kind # "Ok" THEN [out |-> parsed, self |-> Gone("Consumed")]
      ELSE [out |-> Ok(<< >>), self |-> Gone("Consumed")]

\* Transaction::reset_timeout(&mut self)
legacy_reset_timeout_req(self) == send_query(self.transaction, self.headers, << >>)

legacy_reset_timeout(self, resp) ==
  LET sent == legacy_send_query(resp)
  IN  IF sent.out.kind # "Ok" THEN [out |-> sent.out, self |-> self]
      ELSE [out |-> Ok(<< >>), self |-> self]

\* ------------------------------- send_query with feature rustc-serialize
\* What a failed check reports: the parameter and the query it names.
ParamError(key, text) ==
  [kind |-> "Other", errors |-> << >>, results |-> << >>, parameter |-> key, query |-> text]

\* Option::unwrap on None.
Panicked == [kind |-> "Panic", errors |-> << >>, results |-> << >>]

\* The position of the first statement with recorded parameter errors, 0
\* when there is none: `for stmt in statements.iter()` with
\* `stmt.has_param_errors()`.
first_with_param_errors(statements) ==
  IF \E i \in 1..Len(statements) : Len(statements[i].param_errors) > 0
  THEN CHOOSE i \in 1..Len(statements) :
         /\ Len(statements[i].param_errors) > 0
         /\ \A j \in 1..(i - 1) : Len(statements[j].param_errors) = 0
  ELSE 0

\* check_param_errors_for_rustc_serialize: for the first statement with
\* recorded errors, `param_errors().iter().nth(1).unwrap()` takes the entry
\* at index 1 of the iteration, the second one, and panics when there is
\* none.
check_param_errors_for_rustc_serialize(statements) ==
  LET i == first_with_param_errors(statements)
  IN  IF i = 0 THEN Ok(<< >>)
      ELSE IF Len(statements[i].param_errors) < 2 THEN Panicked
      ELSE ParamError(statements[i].param_errors[2], statements[i].statement)

\* send_query of cypher/mod.rs built with rustc-serialize: the check, then
\* the request; it hands back the response unread.
send_query_rustc_serialize(endpoint, headers, statements, resp) ==
  LET checked == check_param_errors_for_rustc_serialize(statements)
      req == send_query(endpoint, headers, statements)
  IN  IF checked.kind # "Ok" THEN [out |-> checked, req |-> NoReq]
      ELSE IF ~resp.net THEN [out |-> Err("Hyper"), req |-> req]
      ELSE [out |-> Ok(<< >>), req |-> req]

\* ------------------------------------------------------------------ state
VARIABLES
  tx,       \* tx[t]: the handle t
  created,  \* number of transaction resources the server has created
  world,    \* the scenario: which handles the client uses, and whether the
            \* server and the network may misbehave
  protocol, \* protocol[t]: observer of the calls made on handle t
  located,  \* located[t]: the Location header of the response to t's begin
  batch,    \* the CypherQuery being built, if any
  stmt,     \* the Statement being built, if any
  pcall,    \* the last call on the Statement: its input and outcome
  history,  \* history[t]: the commit URI of the response to t's begin,
            \* whether a call on t has put a request on the wire, and (in
            \* the scenario with a data store) the statements that successful
            \* calls on t delivered and how the transaction ended
  store,    \* the server's data, followed in the scenario with a data store
  res,      \* the CypherResult in the caller's hands, its Rows iterator, the
            \* Row last yielded, and the last call on them
  last      \* the last operation: its input, request, response and outcome

vars == <<tx, created, world, protocol, located, batch, stmt, pcall, history, store, res, last>>

Idle == [op |-> "none", tx |-> "none", arg |-> NoStmt, pre |-> Gone("Absent"),
         req |-> NoReq, wire |-> << >>, resp |-> NetFail, out |-> Err("none"),
         pending |-> << >>]

\* What the server may answer to a request carrying `stmts`.
Wire(stmts, locations, commitUri) ==
  IF world.faults THEN Responses(stmts, locations, commitUri)
  ELSE {r \in SoundResponses(stmts, locations, commitUri) : r.body.expires.wall \in world.times}

\* Observer of the call sequence on one handle: "created" while the
\* builder is used, "started" after a successful begin, "ended" once
\* begin failed or commit or rollback was called; "violation" when a call
\* arrives that the sequence does not allow.
ProtocolStep(m, op, req, ok) ==
  CASE m = "created" /\ op \in {"add_statement", "with_statement"} /\ req = NoReq -> "created"
    [] m = "created" /\ op = "begin" /\ req.uri = Endpoint -> IF ok THEN "started" ELSE "ended"
    [] m = "started" /\ op \in {"add_statement", "with_statement"} /\ req = NoReq -> "started"
    [] m = "started" /\ op \in {"exec", "send", "reset_timeout"} -> "started"
    [] m = "started" /\ op \in {"commit", "rollback"} -> "ended"
    [] OTHER -> "violation"

NoRowCall == [op |-> "none", name |-> "", index |-> 0, type |-> "none", out |-> NoSuchColumn,
              item |-> NoRow, ended |-> FALSE]

\* No CypherResult is held.  `given` is the result as it was decoded,
\* `yielded` the rows the iterator has yielded, `done` whether it has
\* answered None, `before` the rows of an earlier iterator that ran to its
\* end.
NoResultHeld ==
  [live |-> FALSE, result |-> NoResult, given |-> NoResult, iter |-> NoRows, row |-> NoRow,
   yielded |-> << >>, done |-> FALSE, before |-> [full |-> FALSE, rows |-> << >>],
   call |-> NoRowCall]

\* What the caller wrote: the text given at construction and, per key, the
\* value of the most recent successful write (NoValue: none, or removed).
NoWrites == [text |-> "", latest |-> [k \in Keys |-> NoValue]]

NoCall == [op |-> "none", key |-> "", value |-> NoValue, pairs |-> << >>, ok |-> FALSE,
           out |-> [some |-> FALSE, ok |-> FALSE, value |-> NoValue],
           pre |-> NoStatement, writes |-> NoWrites, calls |-> 0]

\* The effect of statement s run in server transaction n (0: auto-commit).
Effect(n, s) == [tx |-> n, stmt |-> s]
Effects(n, stmts) == {Effect(n, s) : s \in stmts}
Range(seq) == {seq[i] : i \in 1..Len(seq)}

\* A server that applies statements on commit and discards them on
\* rollback: db is the committed data, open[n] the uncommitted effects of
\* transaction n, seen the data that the statements of the last request
\* could read.  `fresh` is the resource a POST to the create endpoint opens.
Serve(st, req, fresh) ==
  LET n == req.uri.id
      body == Range(req.body)
  IN  CASE req.method = "POST" /\ req.uri = Endpoint ->
             [st EXCEPT !.open[fresh] = [state |-> "open", effects |-> body],
                        !.seen = st.db \cup Effects(fresh, body)]
        [] req.method = "POST" /\ req.uri = CommitEndpoint ->
             [st EXCEPT !.db = @ \cup Effects(0, body),
                        !.seen = st.db \cup Effects(0, body)]
        [] req.method = "POST" /\ req.uri.path = "transaction" /\ n > 0 /\ st.open[n].state = "open" ->
             [st EXCEPT !.open[n].effects = @ \cup body,
                        !.seen = st.db \cup Effects(n, st.open[n].effects \cup body)]
        [] req.method = "POST" /\ req.uri.path = "commit" /\ n > 0 /\ st.open[n].state = "open" ->
             [st EXCEPT !.db = @ \cup Effects(n, st.open[n].effects \cup body),
                        !.open[n] = [state |-> "closed", effects |-> {}],
                        !.seen = st.db \cup Effects(n, st.open[n].effects \cup body)]
        [] req.method = "DELETE" /\ req.uri.path = "transaction" /\ n > 0 /\ st.open[n].state = "open" ->
             [st EXCEPT !.open[n] = [state |-> "closed", effects |-> {}],
                        !.seen = st.db]
        [] OTHER -> st

\* The store after a call: the server serves the request when it answers.
Served(req, resp, fresh) ==
  IF world.store /\ req # NoReq /\ resp.net THEN Serve(store, req, fresh) ELSE store

\* The statements a call hands to the server.
Delivered(op, pre, arg) ==
  CASE op \in {"begin", "send", "commit"} -> Range(pre.statements)
    [] op = "exec" -> {arg}
    [] OTHER -> {}

\* The requests a call puts on the wire: none when it builds no request.
WireOf(req, resp) == IF req = NoReq THEN << >> ELSE exchanges(req, resp)

\* The common effect of a call `op` on handle t.
Call(t, op, arg, req, resp, r) ==
  /\ tx' = [tx EXCEPT ![t] = r.self]
  /\ protocol' = [protocol EXCEPT ![t] = ProtocolStep(@, op, req, r.out.kind = "Ok")]
  /\ located' = IF op = "begin" THEN [located EXCEPT ![t] = resp.location] ELSE located
  /\ history' = [history EXCEPT
                   ![t].commit = IF op = "begin" THEN resp.body.commit ELSE @,
                   ![t].contacted = @ \/ WireOf(req, resp) # << >>,
                   ![t].sent = IF world.store /\ r.out.kind = "Ok"
                               THEN @ \cup Delivered(op, tx[t], arg) ELSE @,
                   ![t].fate = IF world.store /\ r.out.kind = "Ok" /\ op = "commit" THEN "committed"
                               ELSE IF world.store /\ r.out.kind = "Ok" /\ op = "rollback" THEN "rolledback"
                               ELSE @]
  /\ store' = Served(req, resp, created + 1)
  /\ last' = [op |-> op, tx |-> t, arg |-> arg, pre |-> tx[t], req |-> req,
              wire |-> WireOf(req, resp), resp |-> resp, out |-> r.out,
              pending |-> last.pending]
  /\ UNCHANGED <<world, batch, stmt, pcall, res>>

InitTx ==
  /\ tx = [t \in TxIds |-> Gone("Absent")]
  /\ created = 0
  /\ protocol = [t \in TxIds |-> "absent"]
  /\ located = [t \in TxIds |-> NoUri]
  /\ batch = NoQuery
  /\ history = [t \in TxIds |-> [commit |-> NoUri, contacted |-> FALSE, sent |-> {}, fate |-> "none", born |-> 0]]
  /\ store = [db |-> {}, seen |-> {},
              open |-> [n \in 1..Cardinality(TxIds) |-> [state |-> "none", effects |-> {}]]]
  /\ stmt = NoStatement
  /\ pcall = NoCall
  /\ res = NoResultHeld
  /\ last = Idle

\* One handle against a server and a network that may misbehave.
Init == InitTx /\ world = [handles |-> {"t1"}, faults |-> TRUE, store |-> FALSE, times |-> Times]

\* Two handles against a server that answers in the envelope's shape, all
\* within one instant of the clock.
InitPair == InitTx /\ world = [handles |-> TxIds, faults |-> FALSE, store |-> FALSE, times |-> {0}]

\* No transaction: the auto-commit path against a server and a network
\* that may misbehave.
InitQuery == InitTx /\ world = [handles |-> {}, faults |-> TRUE, store |-> FALSE, times |-> Times]

\* One handle and the auto-commit path against a server that accepts every
\* statement and keeps data (the network may still fail, and then the
\* request is lost).
InitStore == InitTx /\ world = [handles |-> {"t1"}, faults |-> FALSE, store |-> TRUE, times |-> Times]

\* Cypher::transaction / Transaction::new
New(t) ==
  /\ tx[t].state = "Absent"
  /\ \E now \in world.times :
       /\ tx' = [tx EXCEPT ![t] = new(Endpoint, Headers, now)]
       /\ history' = [history EXCEPT ![t].born = IF world.store THEN now ELSE @]
       /\ last' = [Idle EXCEPT !.op = "new", !.tx = t, !.pre = tx[t]]
  /\ protocol' = [protocol EXCEPT ![t] = "created"]
  /\ UNCHANGED <<created, world, located, batch, stmt, pcall, store, res>>

\* Transaction::add_statement, on a Created or a Started handle
AddStatement(t) ==
  /\ tx[t].state \in {"Created", "Started"}
  /\ Len(tx[t].statements) < MaxStmts
  /\ \E s \in Statements :
       Call(t, "add_statement", s, NoReq, NetFail,
            [out |-> Ok(<< >>), self |-> add_statement(tx[t], s)])
  /\ UNCHANGED created

\* Transaction<Created>::with_statement
WithStatementCreated(t) ==
  /\ tx[t].state = "Created"
  /\ Len(tx[t].statements) < MaxStmts
  /\ \E s \in Statements :
       Call(t, "with_statement", s, NoReq, NetFail,
            [out |-> Ok(<< >>), self |-> with_statement(tx[t], s)])
  /\ UNCHANGED created

\* Transaction<Started>::with_statement
WithStatementStarted(t) ==
  /\ tx[t].state = "Started"
  /\ Len(tx[t].statements) < MaxStmts
  /\ \E s \in Statements :
       Call(t, "with_statement", s, NoReq, NetFail,
            [out |-> Ok(<< >>), self |-> with_statement(tx[t], s)])
  /\ UNCHANGED created

\* Transaction<Created>::begin; the server creates resource created + 1.
Begin(t) ==
  /\ tx[t].state = "Created"
  /\ LET req == begin_req(tx[t])
     IN  \E resp \in Wire(req.body, {NoUri, TxUri(created + 1)}, CommitUri(created + 1)) :
           /\ Call(t, "begin", NoStmt, req, resp, begin(tx[t], resp))
           /\ created' = IF resp.net THEN created + 1 ELSE created

\* Transaction<Started>::send
\* The responses to a later request: what the server may answer with the
\* transaction's own commit URI, and with a faulty server also the answer
\* to the statements in the full envelope carrying another transaction's
\* commit URI.
WireLater(stmts, self) ==
  Wire(stmts, {NoUri}, CommitUri(self.transaction.id)) \cup
  (IF world.faults
   THEN { [net |-> TRUE, location |-> NoUri,
           body |-> [json |-> TRUE, fields |-> TransactionResultFields, results |-> Answers(stmts),
                     errors |-> << >>, commit |-> CommitUri(self.transaction.id + 1),
                     expires |-> x]] : x \in ExpiresWire }
   ELSE {})

Send(t) ==
  /\ tx[t].state = "Started"
  /\ LET req == send_req(tx[t])
     IN  \E resp \in WireLater(req.body, tx[t]) :
           Call(t, "send", NoStmt, req, resp, send(tx[t], resp))
  /\ UNCHANGED created

\* Transaction<Started>::exec
Exec(t) ==
  /\ tx[t].state = "Started"
  /\ \E s \in Statements :
       LET req == exec_req(tx[t], s)
       IN  \E resp \in WireLater(req.body, tx[t]) :
             Call(t, "exec", s, req, resp, exec(tx[t], s, resp))
  /\ UNCHANGED created

\* Transaction<Started>::commit
Commit(t) ==
  /\ tx[t].state = "Started"
  /\ LET req == commit_req(tx[t])
     IN  \E resp \in Wire(req.body, {NoUri}, CommitUri(tx[t].transaction.id)) :
           Call(t, "commit", NoStmt, req, resp, commit(tx[t], resp))
  /\ UNCHANGED created

\* Transaction<Started>::rollback
Rollback(t) ==
  /\ tx[t].state = "Started"
  /\ LET req == rollback_req(tx[t])
     IN  \E resp \in Wire(req.body, {NoUri}, CommitUri(tx[t].transaction.id)) :
           Call(t, "rollback", NoStmt, req, resp, rollback(tx[t], resp))
  /\ UNCHANGED created

\* Transaction<Started>::reset_timeout
ResetTimeout(t) ==
  /\ tx[t].state = "Started"
  /\ LET req == reset_timeout_req(tx[t])
     IN  \E resp \in Wire(req.body, {NoUri}, CommitUri(tx[t].transaction.id)) :
           Call(t, "reset_timeout", NoStmt, req, resp, reset_timeout(tx[t], resp))
  /\ UNCHANGED created

\* The record of a call on the CypherQuery (its statements before the call
\* are kept in `pre`).
QueryCallWith(op, arg, pending, req, resp, r) ==
  /\ batch' = r.self
  /\ last' = [op |-> op, tx |-> "query", arg |-> arg,
              pre |-> [Gone("Query") EXCEPT !.statements = batch.statements],
              req |-> req, wire |-> WireOf(req, resp), resp |-> resp, out |-> r.out,
              pending |-> pending]
  /\ store' = Served(req, resp, created + 1)
  /\ UNCHANGED <<tx, created, world, protocol, located, stmt, pcall, history, res>>

\* The statements the caller has put in the query once `op` returned:
\* none in a new query, one more at the end after an add, the same at send.
PendingAfter(op, arg) ==
  CASE op = "query" -> << >>
    [] op \in {"query_add_statement", "query_with_statement"} -> Append(last.pending, arg)
    [] OTHER -> last.pending

QueryCall(op, arg, req, resp, r) ==
  QueryCallWith(op, arg, PendingAfter(op, arg), req, resp, r)

\* Cypher::query
Query ==
  /\ ~batch.live
  /\ QueryCall("query", NoStmt, NoReq, NetFail, [out |-> Ok(<< >>), self |-> query])

\* CypherQuery::add_statement
QueryAddStatement ==
  /\ batch.live
  /\ Len(batch.statements) < MaxStmts
  /\ \E s \in Statements :
       QueryCall("query_add_statement", s, NoReq, NetFail,
                 [out |-> Ok(<< >>), self |-> query_add_statement(batch, s)])

\* CypherQuery::with_statement
QueryWithStatement ==
  /\ batch.live
  /\ Len(batch.statements) < MaxStmts
  /\ \E s \in Statements :
       QueryCall("query_with_statement", s, NoReq, NetFail,
                 [out |-> Ok(<< >>), self |-> query_with_statement(batch, s)])

\* The statement lists handed to set_statements.
StatementLists == UNION { [1..n -> Statements] : n \in 0..MaxStmts }

\* CypherQuery::set_statements
QuerySetStatements ==
  /\ batch.live
  /\ \E list \in StatementLists :
       QueryCallWith("query_set_statements", NoStmt, list, NoReq, NetFail,
                     [out |-> Ok(<< >>), self |-> query_set_statements(batch, list)])

\* CypherQuery::send
QuerySend ==
  /\ batch.live
  /\ LET req == query_send_req(batch)
     IN  \E resp \in Wire(req.body, {NoUri}, NoUri) :
           QueryCall("query_send", NoStmt, req, resp, query_send(batch, resp))

\* Cypher::exec: the query it builds is local to the call.
CypherExec ==
  \E s \in Statements :
    LET req == cypher_exec_req(s)
    IN  \E resp \in Wire(req.body, {NoUri}, NoUri) :
          /\ last' = [op |-> "cypher_exec", tx |-> "cypher", arg |-> s, pre |-> Gone("Query"),
                      req |-> req, wire |-> WireOf(req, resp), resp |-> resp,
                      out |-> cypher_exec(s, resp), pending |-> last.pending]
          /\ store' = Served(req, resp, created + 1)
          /\ UNCHANGED <<tx, created, world, protocol, located, batch, stmt, pcall, history, res>>

Next ==
  \/ \E t \in world.handles : New(t)
  \/ \E t \in world.handles : AddStatement(t)
  \/ \E t \in world.handles : WithStatementCreated(t)
  \/ \E t \in world.handles : WithStatementStarted(t)
  \/ \E t \in world.handles : Begin(t)
  \/ \E t \in world.handles : Send(t)
  \/ \E t \in world.handles : Exec(t)
  \/ \E t \in world.handles : Commit(t)
  \/ \E t \in world.handles : Rollback(t)
  \/ \E t \in world.handles : ResetTimeout(t)
  \/ CypherExec

Spec == Init /\ [][Next]_vars

SpecPair == InitPair /\ [][Next]_vars

SpecStore == InitStore /\ [][Next]_vars

NextQuery ==
  \/ Query
  \/ QueryAddStatement
  \/ QueryWithStatement
  \/ QuerySetStatements
  \/ QuerySend
  \/ CypherExec

SpecQuery == InitQuery /\ [][NextQuery]_vars

\* ------------------------------------------------------ Statement actions
\* The pairs of one cypher_stmt! invocation with parameters.
ParamLists ==
  UNION { [1..n -> [key : Keys, value : RustValues]] : n \in 1..MaxParams }

\* The maps handed to set_parameters: BTreeMap<String, T>, every value of
\* the one type T.
ParamMaps ==
  UNION { [Keys -> {v \in RustValues : v.type = T} \cup {NoValue}] :
            T \in {v.type : v \in RustValues} }

\* The writes of the pairs of one cypher_stmt! invocation, in order.
RECURSIVE WritesOf(_, _, _)
WritesOf(w, pairs, i) ==
  IF i > Len(pairs) THEN w
  ELSE WritesOf([w EXCEPT !.latest[pairs[i].key] = pairs[i].value], pairs, i + 1)

\* The common effect of a call on the Statement; `w` is what the caller
\* has written once the call returned.
StatementCall(op, key, value, pairs, r, out, w) ==
  /\ stmt' = r.self
  /\ pcall' = [op |-> op, key |-> key, value |-> value, pairs |-> pairs, ok |-> r.ok,
               out |-> out, pre |-> stmt, writes |-> w,
               calls |-> IF "calls" \in DOMAIN r THEN r.calls ELSE 0]
  /\ UNCHANGED <<tx, created, world, protocol, located, batch, history, store, res, last>>

\* Statement::new
StatementNew ==
  /\ ~stmt.live
  /\ \E text \in Texts :
       StatementCall("new", "", NoValue, << >>, [ok |-> TRUE, self |-> statement_new(text)],
                     NoCall.out, [NoWrites EXCEPT !.text = text])

\* Statement::from(text), the conversion behind Into<Statement>
StatementFrom ==
  /\ ~stmt.live
  /\ \E text \in Texts :
       StatementCall("from", "", NoValue, << >>, [ok |-> TRUE, self |-> statement_from(text)],
                     NoCall.out, [NoWrites EXCEPT !.text = text])

\* cypher_stmt!(text, { key => value, ... })
CypherStmt ==
  /\ ~stmt.live
  /\ \E text \in Texts, pairs \in ParamLists :
       LET r == cypher_stmt(text, pairs)
       IN  StatementCall("cypher_stmt", "", NoValue, pairs, r, NoCall.out,
                         IF r.ok THEN WritesOf([NoWrites EXCEPT !.text = text], pairs, 1)
                         ELSE NoWrites)

\* Statement::add_param
AddParam ==
  /\ stmt.live
  /\ \E key \in Keys, value \in RustValues :
       LET r == add_param(stmt, key, value)
       IN  StatementCall("add_param", key, value, << >>, r, NoCall.out,
                         IF r.ok THEN [pcall.writes EXCEPT !.latest[key] = value]
                         ELSE pcall.writes)

\* Statement::with_param
WithParam ==
  /\ stmt.live
  /\ \E key \in Keys, value \in RustValues :
       LET r == with_param(stmt, key, value)
       IN  StatementCall("with_param", key, value, << >>, r, NoCall.out,
                         IF r.ok THEN [pcall.writes EXCEPT !.latest[key] = value]
                         ELSE NoWrites)

\* Statement::set_parameters (the call keeps the map it was given as its
\* value)
SetParameters ==
  /\ stmt.live
  /\ \E params \in ParamMaps :
       LET r == set_parameters(stmt, params)
       IN  StatementCall("set_parameters", "", params, << >>, r, NoCall.out,
                         IF r.ok THEN [pcall.writes EXCEPT !.latest = params]
                         ELSE pcall.writes)

\* Statement::remove_param
RemoveParam ==
  /\ stmt.live
  /\ \E key \in Keys :
       StatementCall("remove_param", key, NoValue, << >>,
                     [ok |-> TRUE, self |-> remove_param(stmt, key)], NoCall.out,
                     [pcall.writes EXCEPT !.latest[key] = NoValue])

\* Statement::param::<T>
Param ==
  /\ stmt.live
  /\ \E key \in Keys, T \in Types :
       StatementCall("param", key, [type |-> T, val |-> ""], << >>,
                     [ok |-> TRUE, self |-> stmt], param(stmt, key, T), pcall.writes)

\* The statement goes out of scope.
StatementDrop ==
  /\ stmt.live
  /\ StatementCall("drop", "", NoValue, << >>, [ok |-> TRUE, self |-> NoStatement],
                   NoCall.out, NoWrites)

NextStatement ==
  \/ StatementNew
  \/ StatementFrom
  \/ CypherStmt
  \/ AddParam
  \/ WithParam
  \/ SetParameters
  \/ RemoveParam
  \/ Param
  \/ StatementDrop

\* No transaction and no query: a Statement is built and read.
SpecStatement == InitQuery /\ [][NextStatement]_vars

\* --------------------------------------------------- CypherResult actions
\* The indexes handed to get_n: within and beyond the widest row.
Indexes == {0, 1, 2}

ResultStep(r) ==
  /\ res' = r
  /\ UNCHANGED <<tx, created, world, protocol, located, batch, stmt, pcall, history, store, last>>

\* A response is decoded and one of its CypherResults reaches the caller.
ResultDecoded ==
  /\ ~res.live
  /\ \E result \in CypherResults :
       ResultStep([NoResultHeld EXCEPT !.live = TRUE, !.result = result, !.given = result,
                                       !.call.op = "decode"])

\* CypherResult::rows
ResultRows ==
  /\ res.live
  /\ ResultStep([res EXCEPT !.iter = rows(res.result), !.yielded = << >>, !.done = FALSE,
                            !.before = IF res.done THEN [full |-> TRUE, rows |-> res.yielded] ELSE @,
                            !.call = [NoRowCall EXCEPT !.op = "rows"]])

\* Rows::next
RowsNext ==
  /\ res.iter.live
  /\ LET n == Rows_next(res.iter)
     IN  ResultStep([res EXCEPT !.iter = n.self,
                               !.row = IF n.item.live THEN n.item ELSE @,
                               !.yielded = IF n.item.live THEN Append(@, n.item) ELSE @,
                               !.done = @ \/ ~n.item.live,
                               !.call = [NoRowCall EXCEPT !.op = "next", !.item = n.item,
                                                          !.ended = res.done]])

\* Row::get::<T>, on the row last yielded
RowGet ==
  /\ res.row.live
  /\ \E name \in Names, T \in Types :
       ResultStep([res EXCEPT !.call = [NoRowCall EXCEPT !.op = "get", !.name = name, !.type = T,
                                                        !.out = get(res.row, name, T)]])

\* Row::get_n::<T>, on the row last yielded
RowGetN ==
  /\ res.row.live
  /\ \E index \in Indexes, T \in Types :
       ResultStep([res EXCEPT !.call = [NoRowCall EXCEPT !.op = "get_n", !.index = index, !.type = T,
                                                        !.out = get_n(res.row, index, T)]])

\* The result goes out of scope, and with it the iterator and the row that
\* borrow from it.
ResultDrop ==
  /\ res.live
  /\ ResultStep(NoResultHeld)

NextResult ==
  \/ ResultDecoded
  \/ ResultRows
  \/ RowsNext
  \/ RowGet
  \/ RowGetN
  \/ ResultDrop

\* No transaction and no query: a CypherResult is read.
SpecResult == InitQuery /\ [][NextResult]_vars

\* ------------------------------------- actions of src/transaction.rs
\* The answers of a server that keeps transactions: the full transaction
\* envelope for the endpoint and for an open transaction's resource, the
\* plain {results, errors} envelope for its commit URI and for its DELETE,
\* and an error for a transaction it does not hold open; the network may
\* fail.
ServerAnswers(st, req, fresh) ==
  LET n == req.uri.id
      full(locations, commitUri) ==
        { [net |-> TRUE, location |-> l,
           body |-> [json |-> TRUE, fields |-> TransactionResultFields,
                     results |-> Answers(req.body), errors |-> << >>,
                     commit |-> commitUri, expires |-> [ok |-> TRUE, wall |-> w]]] :
            l \in locations, w \in world.times }
      plain(results, errors) ==
        { [net |-> TRUE, location |-> NoUri,
           body |-> [json |-> TRUE, fields |-> CommitResultFields, results |-> results,
                     errors |-> errors, commit |-> NoUri, expires |-> NoExpires]] }
      known == n > 0 /\ st.open[n].state = "open"
  IN  {NetFail} \cup
      (CASE req.method = "POST" /\ req.uri = Endpoint -> full({NoUri, TxUri(fresh)}, CommitUri(fresh))
         [] req.method = "POST" /\ req.uri.path = "transaction" /\ known -> full({NoUri}, CommitUri(n))
         [] req.method = "POST" /\ req.uri.path = "commit" /\ known -> plain(Answers(req.body), << >>)
         [] req.method = "DELETE" /\ req.uri.path = "transaction" /\ known -> plain(<< >>, << >>)
         [] OTHER -> plain(<< >>, <<"e1">>))

\* The common effect of a call of the Transaction of transaction.rs.
LegacyCall(t, op, arg, req, resp, r) ==
  /\ tx' = [tx EXCEPT ![t] = r.self]
  /\ located' = IF op = "legacy_begin" THEN [located EXCEPT ![t] = resp.location] ELSE located
  /\ history' = [history EXCEPT
                   ![t].commit = IF op = "legacy_begin" THEN resp.body.commit ELSE @,
                   ![t].contacted = @ \/ WireOf(req, resp) # << >>]
  /\ store' = Served(req, resp, created + 1)
  /\ created' = IF op = "legacy_begin" /\ resp.net THEN created + 1 ELSE created
  /\ last' = [op |-> op, tx |-> t, arg |-> arg, pre |-> tx[t], req |-> req,
              wire |-> WireOf(req, resp), resp |-> resp, out |-> r.out,
              pending |-> last.pending]
  /\ UNCHANGED <<world, protocol, batch, stmt, pcall, res>>

\* Transaction::begin
LegacyBegin(t) ==
  /\ tx[t].state = "Absent"
  /\ created < Cardinality(TxIds)
  /\ \E statements \in StatementLists :
       LET req == legacy_begin_req(Endpoint, Headers, statements)
       IN  \E resp \in ServerAnswers(store, req, created + 1) :
             LegacyCall(t, "legacy_begin", statements, req, resp, legacy_begin(Headers, resp))

\* Transaction::query
LegacyQuery(t) ==
  /\ tx[t].state = "Started"
  /\ \E statements \in StatementLists :
       LET req == legacy_query_req(tx[t], statements)
       IN  \E resp \in ServerAnswers(store, req, created + 1) :
             LegacyCall(t, "legacy_query", statements, req, resp, legacy_query(tx[t], resp))

\* Transaction::commit
LegacyCommit(t) ==
  /\ tx[t].state = "Started"
  /\ \E statements \in StatementLists :
       LET req == legacy_commit_req(tx[t], statements)
       IN  \E resp \in ServerAnswers(store, req, created + 1) :
             LegacyCall(t, "legacy_commit", statements, req, resp, legacy_commit(tx[t], resp))

\* Transaction::rollback
LegacyRollback(t) ==
  /\ tx[t].state = "Started"
  /\ LET req == legacy_rollback_req(tx[t])
     IN  \E resp \in ServerAnswers(store, req, created + 1) :
           LegacyCall(t, "legacy_rollback", << >>, req, resp, legacy_rollback(tx[t], resp))

\* Transaction::reset_timeout
LegacyResetTimeout(t) ==
  /\ tx[t].state = "Started"
  /\ LET req == legacy_reset_timeout_req(tx[t])
     IN  \E resp \in ServerAnswers(store, req, created + 1) :
           LegacyCall(t, "legacy_reset_timeout", << >>, req, resp, legacy_reset_timeout(tx[t], resp))

NextLegacy ==
  \/ \E t \in world.handles : LegacyBegin(t)
  \/ \E t \in world.handles : LegacyQuery(t)
  \/ \E t \in world.handles : LegacyCommit(t)
  \/ \E t \in world.handles : LegacyRollback(t)
  \/ \E t \in world.handles : LegacyResetTimeout(t)

\* The Transaction of transaction.rs against a server that keeps data.
SpecLegacy == InitStore /\ [][NextLegacy]_vars

\* ---------------------- actions of send_query with rustc-serialize
\* The parameter errors a statement may have recorded, in the order in
\* which param_errors() iterates: no key twice.
ParamErrorLists ==
  { e \in UNION { [1..n -> Keys] : n \in 0..MaxParams } :
      \A i, j \in 1..Len(e) : e[i] = e[j] => i = j }

\* The statements handed to send_query: a text and the recorded errors.
CheckedStatements == [statement : Statements, param_errors : ParamErrorLists]

CheckedBatches == UNION { [1..n -> CheckedStatements] : n \in 0..MaxStmts }

\* send_query(client, endpoint, headers, statements)
SendQueryRustcSerialize ==
  /\ \E statements \in CheckedBatches, resp \in {NetFail, [net |-> TRUE, location |-> NoUri, body |-> Garbage]} :
       LET r == send_query_rustc_serialize(CommitEndpoint, Headers, statements, resp)
       IN  last' = [Idle EXCEPT !.op = "send_query", !.arg = statements, !.req = r.req,
                                !.wire = WireOf(r.req, resp), !.resp = resp, !.out = r.out]
  /\ UNCHANGED <<tx, created, world, protocol, located, batch, stmt, pcall, history, store, res>>

NextRustcSerialize == SendQueryRustcSerialize

\* send_query alone, built with rustc-serialize.
SpecRustcSerialize == InitQuery /\ [][NextRustcSerialize]_vars

\* ================================================================= claims
\* The operations that decode a response envelope.
DecodingOps == {"begin", "send", "exec", "commit", "rollback", "query_send"}

\* A body that decodes cleanly as a TransactionResult: JSON, all four
\* fields, no errors.
CleanTransactionBody(b) ==
  b.json /\ TransactionResultFields \subseteq b.fields /\ b.errors = << >>

\* C1: when the response to begin carries no Location header, begin
\* returns an error and the handle is not Started afterwards, whatever
\* the body is.
C1_NoStartedWithoutLocation ==
  (last.op = "begin" /\ last.resp.location = NoUri)
    => (last.out.kind # "Ok" /\ tx[last.tx].state # "Started")

\* begin got a response that decodes cleanly, with a parsable expiry, and
\* no Location: it failed with the Transaction error.
C1_Witness ==
  /\ last.op = "begin" /\ last.resp.net /\ last.resp.location = NoUri
  /\ CleanTransactionBody(last.resp.body) /\ last.resp.body.expires.ok
  /\ last.out.kind = "Transaction" /\ tx[last.tx].state = "Consumed"

\* C2 as stated: every response to begin without a Location header gives
\* the Transaction error, whatever the body.
C2_AlwaysTransactionError ==
  (last.op = "begin" /\ last.resp.net /\ last.resp.location = NoUri)
    => last.out.kind = "Transaction"

\* C2 amended: a response to begin without a Location header gives the
\* Transaction error exactly when its body decodes cleanly; otherwise
\* begin returns the decoder's error: Neo4j with the body's errors when
\* the body fits the envelope and lists errors, Serde when it does not fit.
C2_TransactionErrorIffCleanBody ==
  (last.op = "begin" /\ last.resp.net /\ last.resp.location = NoUri)
    => LET b == last.resp.body
       IN  /\ (last.out.kind = "Transaction") <=> CleanTransactionBody(b)
           /\ (b.json /\ TransactionResultFields \subseteq b.fields /\ b.errors # << >>)
                => (last.out.kind = "Neo4j" /\ last.out.errors = b.errors)
           /\ (~b.json \/ ~(TransactionResultFields \subseteq b.fields))
                => last.out.kind = "Serde"

\* begin got no Location and a well-shaped body that lists errors: the
\* error is Neo4j, not Transaction.
C2_Witness ==
  /\ last.op = "begin" /\ last.resp.net /\ last.resp.location = NoUri
  /\ last.resp.body.json /\ TransactionResultFields \subseteq last.resp.body.fields
  /\ last.resp.body.errors # << >>
  /\ last.out.kind = "Neo4j"

\* C3: whenever a decoding operation receives a JSON envelope whose
\* errors list is non-empty, it fails with the Neo4j error carrying that
\* list in order, and returns no results.
C3_ErrorsBecomeNeo4j ==
  (last.op \in DecodingOps /\ last.resp.net /\ last.resp.body.json
     /\ last.resp.body.errors # << >>)
    => (last.out.kind = "Neo4j" /\ last.out.errors = last.resp.body.errors
        /\ last.out.results = << >>)

\* C4: the decoder decides in the order JSON syntax, non-empty errors,
\* typed decode: invalid JSON is a Serde error, valid JSON with errors is
\* Neo4j(errors) even when the body does not fit the typed envelope, and a
\* Serde error on valid JSON is reported only when errors is empty.
C4_SyntaxThenErrorsThenShape ==
  (last.op \in DecodingOps /\ last.resp.net)
    => LET b == last.resp.body
       IN  /\ ~b.json => last.out.kind = "Serde"
           /\ (b.json /\ last.out.kind = "Serde") => b.errors = << >>
           /\ (b.json /\ b.errors # << >> /\ ~(TransactionResultFields \subseteq b.fields))
                => (last.out.kind = "Neo4j" /\ last.out.errors = b.errors)

\* C5: the calls on one handle form the sequence builder calls, one begin
\* (to the create endpoint), Started calls, at most one commit or
\* rollback; no call arrives before a successful begin that needs one, and
\* none after a failed begin, a commit or a rollback.
C5_CallSequence ==
  \A t \in TxIds : protocol[t] # "violation"

\* A commit that failed: the sequence has ended all the same.
C5_Witness ==
  /\ last.op = "commit" /\ last.out.kind # "Ok"
  /\ protocol[last.tx] = "ended" /\ tx[last.tx].state = "Consumed"

\* C6: two live Started handles never refer to the same transaction
\* resource.
C6_OneHandlePerResource ==
  \A a, b \in TxIds :
    (a # b /\ tx[a].state = "Started" /\ tx[b].state = "Started")
      => tx[a].transaction # tx[b].transaction

\* Both handles are Started at once.
C6_Witness ==
  \A t \in TxIds : tx[t].state = "Started" /\ tx[t].transaction = located[t]

C8_ExpiresNeverDecreases ==
  (last.op \in {"send", "exec"} /\ last.out.kind = "Ok")
    => tx[last.tx].expires >= last.pre.expires

\* C8 amended: after a successful exec or send, expires is the expiry of
\* the response; so it does not decrease when that expiry is not earlier
\* than the previous value.
C8_ExpiresFollowsResponse ==
  (last.op \in {"send", "exec"} /\ last.out.kind = "Ok")
    => /\ last.resp.body.expires.ok
       /\ tx[last.tx].expires = last.resp.body.expires.wall
       /\ last.resp.body.expires.wall >= last.pre.expires
            => tx[last.tx].expires >= last.pre.expires

\* A successful send whose response carried an earlier expiry.
C8_Witness ==
  /\ last.op \in {"send", "exec"} /\ last.out.kind = "Ok"
  /\ last.resp.body.expires.wall < last.pre.expires
  /\ tx[last.tx].expires < last.pre.expires

\* C9: send posts exactly the pending statements, in order, to the
\* Location returned by begin (not to the commit URI); after a successful
\* send the buffer is empty, expires is the response's expiry and the
\* response's results are returned.
C9_SendPostsBuffer ==
  last.op = "send"
    => /\ last.req.method = "POST"
       /\ last.req.uri = located[last.tx]
       /\ last.req.uri # last.pre.commit
       /\ last.req.body = last.pre.statements
       /\ last.out.kind = "Ok"
            => /\ tx[last.tx].statements = << >>
               /\ tx[last.tx].expires = last.resp.body.expires.wall
               /\ last.out.results = last.resp.body.results

\* A successful send of two buffered statements.
C9_Witness ==
  /\ last.op = "send" /\ last.out.kind = "Ok"
  /\ Len(last.pre.statements) = 2 /\ Len(last.out.results) = 2
  /\ tx[last.tx].statements = << >>

\* C10: exec posts the given statement alone; what was buffered before is
\* not in the request, and the buffer is empty when exec returns.
C10_ExecSendsOnlyGiven ==
  last.op = "exec"
    => /\ last.req.body = <<last.arg>>
       /\ tx[last.tx].statements = << >>

\* exec was called with statements pending in the buffer.
C10_Witness ==
  /\ last.op = "exec" /\ last.out.kind = "Ok"
  /\ Len(last.pre.statements) > 0
  /\ last.req.body = <<last.arg>>

\* The last call was an exec, on a Started handle or on the auto-commit
\* path, and the server answered its one statement with an envelope that
\* decodes, reports no error and holds an empty results list.
NoResultsAnswered ==
  /\ last.op \in {"exec", "cypher_exec"}
  /\ Len(last.req.body) = 1
  /\ last.resp.net
  /\ last.resp.body.json
  /\ last.resp.body.errors = << >>
  /\ last.resp.body.results = << >>
  /\ IF last.op = "exec"
       THEN TransactionResultFields \subseteq last.resp.body.fields /\ last.resp.body.expires.ok
       ELSE QueryResultFields \subseteq last.resp.body.fields

C12_CommitPostsPending ==
  last.op = "commit" =>
    /\ last.wire = <<last.req>>
    /\ last.req.method = "POST"
    /\ last.req.uri = history[last.tx].commit
    /\ last.req.uri # located[last.tx]
    /\ last.req.headers = last.pre.headers
    /\ last.req.body = last.pre.statements
    /\ last.out.kind = "Ok" => last.out.results = last.resp.body.results

C12_Witness ==
  /\ last.op = "commit"
  /\ Len(last.pre.statements) = MaxStmts
  /\ last.req.uri = history[last.tx].commit
  /\ last.out.kind = "Ok"
  /\ last.out.results = Answers(last.pre.statements)

\* A body that decodes as a CommitResult and reports no error.
CleanCommitBody(b) ==
  b.json /\ CommitResultFields \subseteq b.fields /\ b.errors = << >>

\* C13: rollback puts one DELETE on the wire, to the transaction resource,
\* with the handle's headers and an empty body, so that pending statements
\* are never sent; when a response arrives it returns Ok(()) exactly when
\* the body decodes with an empty errors list, and an error otherwise.
C13_RollbackDeletesResource ==
  last.op = "rollback" =>
    /\ last.wire = <<last.req>>
    /\ last.req.method = "DELETE"
    /\ last.req.uri = located[last.tx]
    /\ last.req.headers = last.pre.headers
    /\ last.req.body = << >>
    /\ tx[last.tx] = Gone("Consumed")
    /\ last.out.results = << >>
    /\ last.resp.net => (last.out.kind = "Ok" <=> CleanCommitBody(last.resp.body))

C13_Witness ==
  /\ last.op = "rollback"
  /\ Len(last.pre.statements) = MaxStmts
  /\ last.req.body = << >>
  /\ last.out.kind = "Ok"

\* C14: reset_timeout posts zero statements to the transaction resource
\* and, when the server answers with a clean transaction envelope, leaves
\* the handle as it was except for expires, which is the response's expiry.
C14_ResetTimeoutSetsExpires ==
  (/\ last.op = "reset_timeout"
   /\ last.resp.net
   /\ CleanTransactionBody(last.resp.body)
   /\ last.resp.body.expires.ok) =>
    /\ last.req = send_query(located[last.tx], last.pre.headers, << >>)
    /\ last.out.kind = "Ok"
    /\ tx[last.tx] = [last.pre EXCEPT !.expires = last.resp.body.expires.wall]

\* C15: reset_timeout answered with a transaction envelope whose errors
\* list is not empty fails with the Neo4j error carrying that list.
C15_ResetTimeoutReportsErrors ==
  (/\ last.op = "reset_timeout"
   /\ last.resp.net
   /\ last.resp.body.json
   /\ TransactionResultFields \subseteq last.resp.body.fields
   /\ last.resp.body.errors # << >>) =>
    last.out = Neo4j(last.resp.body.errors)

BuilderOps == {"new", "add_statement", "with_statement"}

\* C16: new, add_statement and with_statement put nothing on the wire; an
\* add appends the statement at the end of the buffer and leaves the rest
\* of the handle (resource URI, commit URI, expires, headers, earlier
\* statements) as it was; a Created handle has never contacted the server.
C16_BuildersStayLocal ==
  /\ last.op \in BuilderOps => (last.req = NoReq /\ last.wire = << >>)
  /\ last.op = "new" => tx[last.tx].statements = << >>
  /\ last.op \in {"add_statement", "with_statement"} =>
       tx[last.tx] = [last.pre EXCEPT !.statements = Append(last.pre.statements, last.arg)]
  /\ \A t \in TxIds : tx[t].state = "Created" => ~history[t].contacted

C16_Witness ==
  /\ last.op = "add_statement"
  /\ last.pre.state = "Started"
  /\ Len(last.pre.statements) = 1
  /\ last.arg # last.pre.statements[1]
  /\ tx[last.tx].statements = <<last.pre.statements[1], last.arg>>
  /\ last.wire = << >>

\* C17: begin puts one POST on the wire, to the create endpoint, with the
\* statements added before it in their order; when it succeeds the handle
\* is Started with the Location header as resource URI, the body's commit
\* field as commit URI, the parsed transaction.expires as expiry, the
\* headers it had and an empty buffer, and the results of the response
\* come with it.
C17_BeginStartsTransaction ==
  last.op = "begin" =>
    /\ last.req = send_query(Endpoint, last.pre.headers, last.pre.statements)
    /\ last.wire = <<last.req>>
    /\ last.out.kind = "Ok" =>
         /\ tx[last.tx] = [state |-> "Started", transaction |-> last.resp.location,
                           commit |-> last.resp.body.commit,
                           expires |-> last.resp.body.expires.wall,
                           statements |-> << >>, headers |-> last.pre.headers]
         /\ last.resp.location # NoUri
         /\ last.resp.body.expires.ok
         /\ last.out.results = last.resp.body.results

C17_Witness ==
  /\ last.op = "begin"
  /\ last.out.kind = "Ok"
  /\ Len(last.pre.statements) = MaxStmts
  /\ last.out.results = Answers(last.pre.statements)
  /\ tx[last.tx].state = "Started"
  /\ tx[last.tx].expires = MaxTime
  /\ tx[last.tx].commit # tx[last.tx].transaction

\* The operations that talk to the server.
NetworkOps ==
  {"begin", "exec", "send", "commit", "rollback", "reset_timeout", "query_send", "cypher_exec"}

RoundTrippable(v) == ~(v.type = "f64" /\ v.val = "NaN")

\* The value param::<T>(key) must give back for v.
Returned(v) == [some |-> TRUE, ok |-> TRUE, value |-> v]

\* C20: right after add_param(key, v) or with_param(key, v) succeeded with
\* a round-trippable v of type T, param::<T>(key) is Some(Ok(v)); and right
\* after cypher_stmt! succeeded, the same holds for each of its pairs whose
\* key is not given again by a later pair.
C20_ParamRoundTrip ==
  /\ (pcall.op \in {"add_param", "with_param"} /\ pcall.ok /\ RoundTrippable(pcall.value)) =>
       param(stmt, pcall.key, pcall.value.type) = Returned(pcall.value)
  /\ (pcall.op = "cypher_stmt" /\ pcall.ok) =>
       \A i \in 1..Len(pcall.pairs) :
         (/\ RoundTrippable(pcall.pairs[i].value)
          /\ \A j \in (i + 1)..Len(pcall.pairs) : pcall.pairs[j].key # pcall.pairs[i].key) =>
           param(stmt, pcall.pairs[i].key, pcall.pairs[i].value.type) = Returned(pcall.pairs[i].value)

C20_Witness ==
  /\ pcall.op = "with_param"
  /\ pcall.ok
  /\ pcall.value = [type |-> "f64", val |-> "1.5"]
  /\ \E k \in Keys : k # pcall.key /\ stmt.parameters[k] # NoParam
  /\ param(stmt, pcall.key, "f64") = Returned(pcall.value)

\* The effects of the statements that successful calls on handle t
\* delivered: those loaded before begin, those given to exec, those sent,
\* and those pending at commit.
DeliveredEffects(t) == Effects(located[t].id, history[t].sent)

\* The effects of any statement run in the server transaction of handle t.
TransactionEffects(t) == Effects(located[t].id, Statements)

\* C19: against a server that applies statements on commit and discards
\* them on rollback, an auto-commit query that succeeds after commit
\* succeeded on a handle reads the effects of every statement delivered
\* through that handle, and one that succeeds after rollback succeeded
\* reads none of the transaction's effects; an exec that succeeds inside
\* the transaction reads the effects delivered so far.
C19_CommitAppliesRollbackDiscards ==
  /\ (last.op = "cypher_exec" /\ last.out.kind = "Ok") =>
       \A t \in world.handles :
         /\ history[t].fate = "committed" => DeliveredEffects(t) \subseteq store.seen
         /\ history[t].fate = "rolledback" => TransactionEffects(t) \cap store.seen = {}
  /\ (last.op = "exec" /\ last.out.kind = "Ok") =>
       DeliveredEffects(last.tx) \subseteq store.seen

C19_Witness ==
  /\ last.op = "cypher_exec"
  /\ last.out.kind = "Ok"
  /\ history["t1"].fate = "rolledback"
  /\ history["t1"].sent = Statements
  /\ TransactionEffects("t1") \cap store.seen = {}
  /\ Effect(0, last.arg) \in store.seen

\* The JSON value the map must hold for what the caller wrote under k.
Expected(k) ==
  IF pcall.writes.latest[k] = NoValue THEN NoParam ELSE to_value(pcall.writes.latest[k]).value

\* C21: whatever calls were made on a Statement, every key maps to the
\* value of its most recent successful write and to nothing when it was
\* never written or was removed (a key occurs once: the map is keyed), the
\* number of parameters is the number of keys written and not removed, and
\* the text is the one given at construction.
C21_LastWriteWins ==
  stmt.live =>
    /\ \A k \in Keys : stmt.parameters[k] = Expected(k)
    /\ Cardinality({k \in Keys : stmt.parameters[k] # NoParam}) =
         Cardinality({k \in Keys : pcall.writes.latest[k] # NoValue})
    /\ stmt.statement = pcall.writes.text

C21_Witness ==
  /\ pcall.op = "set_parameters"
  /\ pcall.ok
  /\ pcall.pre.parameters["k1"] # NoParam
  /\ stmt.parameters["k1"] = NoParam
  /\ stmt.parameters["k2"] = JsonNull
  /\ stmt.statement = "q2"

\* C22: param::<T>(key) is None exactly when the key is not in the map,
\* Some(Err(_)) when the key is there and its value does not decode to T,
\* Some(Ok(value)) with the decoded value otherwise; a value written with
\* type T that JSON can carry comes back as written; the statement is left
\* as it was.
C22_ParamThreeOutcomes ==
  pcall.op = "param" =>
    LET T == pcall.value.type
        held == pcall.pre.parameters[pcall.key]
        written == pcall.writes.latest[pcall.key]
    IN  /\ stmt = pcall.pre
        /\ pcall.out.some <=> held # NoParam
        /\ pcall.out.some <=> written # NoValue
        /\ ~pcall.out.some => (~pcall.out.ok /\ pcall.out.value = NoValue)
        /\ pcall.out.some =>
             /\ pcall.out.ok = from_value(T, held).ok
             /\ pcall.out.value = from_value(T, held).value
        /\ (written # NoValue /\ written.type = T /\ RoundTrippable(written)) =>
             pcall.out = Returned(written)
        /\ (written # NoValue /\ written.type = "String" /\ T # "String") =>
             (pcall.out.some /\ ~pcall.out.ok)

C22_Witness ==
  /\ pcall.op = "param"
  /\ pcall.out.some
  /\ ~pcall.out.ok
  /\ pcall.value.type = "i32"
  /\ pcall.writes.latest[pcall.key] = [type |-> "f64", val |-> "1.5"]
  /\ \E k \in Keys : stmt.parameters[k] = NoParam

\* A value whose serialization to JSON fails.
Unserializable(v) == v.type = "Opaque"

C27_FromTextIsNew ==
  pcall.op = "from" =>
    /\ stmt = [live |-> TRUE, statement |-> pcall.writes.text,
               parameters |-> [k \in Keys |-> NoParam]]
    /\ stmt = statement_new(pcall.writes.text)

C27_Witness ==
  /\ pcall.op = "from"
  /\ pcall.writes.text = "q2"
  /\ stmt.statement = "q2"
  /\ \A k \in Keys : stmt.parameters[k] = NoParam

\* C24: Row::get with a name that is not among the row's columns answers
\* the "No such column" error, whatever the type asked for and whatever the
\* row holds: not a decode error and not a value.
C24_MissingColumnIsNoSuchColumn ==
  (/\ res.call.op = "get"
   /\ \A i \in 1..Len(res.row.columns) : res.row.columns[i] # res.call.name) =>
    /\ res.call.out = NoSuchColumn
    /\ res.call.out.kind = "Statement"
    /\ res.call.out.message # NoColumnAtIndex.message

C24_Witness ==
  /\ res.call.op = "get"
  /\ res.call.name = "c"
  /\ res.call.type = "String"
  /\ res.row.columns = <<"a", "b">>
  /\ res.row.data = <<JsonOne, JsonA>>
  /\ res.call.out = NoSuchColumn

C26_RowsFiniteRestartable ==
  /\ res.live => res.result = res.given
  /\ res.call.op = "rows" => (res.iter.current_index = 0 /\ res.yielded = << >>)
  /\ res.iter.live =>
       /\ Len(res.yielded) <= Len(res.given.data)
       /\ res.iter.current_index = Len(res.yielded)
       /\ \A k \in 1..Len(res.yielded) :
            res.yielded[k] = Row_new(res.given.columns, res.given.data[k])
  /\ res.done => Len(res.yielded) = Len(res.given.data)
  /\ (res.call.op = "next" /\ res.call.ended) => ~res.call.item.live
  /\ (res.done /\ res.before.full) => res.yielded = res.before.rows

C26_Witness ==
  /\ res.call.op = "next"
  /\ res.call.ended
  /\ ~res.call.item.live
  /\ res.before.full
  /\ Len(res.yielded) = MaxRows
  /\ res.yielded = res.before.rows

\* C28: when begin fails, for whatever reason (transport, decode, server
\* errors, missing Location, unparsable expiry), the caller holds no
\* handle any more (neither Created nor Started, and no statements), also
\* when the server answered and so did create a resource; and the handle
\* never comes back.
C28_FailedBeginLosesHandle ==
  /\ (last.op = "begin" /\ last.out.kind # "Ok") =>
       /\ last.out.kind \in {"Hyper", "Serde", "Neo4j", "Transaction", "TimeParse"}
       /\ tx[last.tx] = Gone("Consumed")
       /\ protocol[last.tx] = "ended"
  /\ \A t \in TxIds : protocol[t] = "ended" => tx[t] = Gone("Consumed")

C28_Witness ==
  /\ last.op = "begin"
  /\ last.out.kind = "TimeParse"
  /\ last.resp.location = TxUri(created)
  /\ created > 0
  /\ Len(last.pre.statements) = MaxStmts
  /\ tx[last.tx] = Gone("Consumed")

\* C29: the query holds the statements the caller put in it, each once
\* and in the order added, set_statements replacing all that were there;
\* send puts one POST on the wire, to the commit endpoint, whose body is
\* that list.
C29_QuerySendsPending ==
  /\ batch.live => batch.statements = last.pending
  /\ last.op = "query_set_statements" => last.req = NoReq
  /\ last.op = "query_send" =>
       /\ last.req = [method |-> "POST", uri |-> CommitEndpoint, headers |-> Headers,
                      body |-> last.pending]
       /\ last.wire = <<last.req>>
       /\ last.pre.statements = last.pending

C29_Witness ==
  /\ last.op = "query_send"
  /\ last.req.uri = CommitEndpoint
  /\ last.req.body = <<"s2", "s1">>
  /\ last.pending = <<"s2", "s1">>
  /\ last.out.kind = "Ok"

\* The errors of a send that did not get through: transport, decode,
\* server errors, unparsable expiry.
SendErrors == {"Hyper", "Serde", "Neo4j", "TimeParse"}

\* C30: when send or exec on a Started handle returns one of the errors of
\* the send, the handle keeps its expiry, its resource URI, its commit URI
\* and its headers, and its buffer is empty: the statements of the failed
\* call are not kept.
C30_FailedSendKeepsHandle ==
  (last.op \in {"send", "exec"} /\ last.out.kind \in SendErrors) =>
    /\ tx[last.tx] = [last.pre EXCEPT !.statements = << >>]
    /\ tx[last.tx].expires = last.pre.expires
    /\ tx[last.tx].transaction = located[last.tx]
    /\ tx[last.tx].commit = history[last.tx].commit

C30_Witness ==
  /\ last.op = "send"
  /\ last.out.kind = "TimeParse"
  /\ Len(last.pre.statements) = MaxStmts
  /\ tx[last.tx].statements = << >>
  /\ tx[last.tx].expires = last.pre.expires
  /\ tx[last.tx].state = "Started"

\* C31: the resource URI and the commit URI of a Started transaction are
\* the Location and the commit field of the begin response, whatever
\* add_statement, with_statement, exec, send and reset_timeout did since,
\* and whatever commit field a later response carried.
C31_UrisFixedAtBegin ==
  \A t \in TxIds :
    tx[t].state = "Started" =>
      /\ tx[t].transaction = located[t]
      /\ tx[t].commit = history[t].commit

\* a send that succeeded on a response carrying another commit field
C31_Witness ==
  /\ last.op = "send"
  /\ last.out.kind = "Ok"
  /\ last.resp.body.commit # last.pre.commit
  /\ tx[last.tx].state = "Started"
  /\ tx[last.tx].commit = history[last.tx].commit

StartedOps == {"exec", "send", "commit", "rollback", "reset_timeout"}

\* the request and the outcome of a Started operation on a given handle
RequestOf(op, self, arg) ==
  CASE op = "exec" -> exec_req(self, arg)
    [] op = "send" -> send_req(self)
    [] op = "commit" -> commit_req(self)
    [] op = "rollback" -> rollback_req(self)
    [] op = "reset_timeout" -> reset_timeout_req(self)

OutcomeOf(op, self, arg, resp) ==
  CASE op = "exec" -> exec(self, arg, resp).out
    [] op = "send" -> send(self, resp).out
    [] op = "commit" -> commit(self, resp).out
    [] op = "rollback" -> rollback(self, resp).out
    [] op = "reset_timeout" -> reset_timeout(self, resp).out

\* C32: expires_at is informational: every operation of a Started
\* transaction issues its one request, and that request and the outcome are
\* the same whatever the kept expiry is, before or after the instant at
\* which the handle was created.
C32_ExpiresIsInformational ==
  (last.op \in StartedOps) =>
    /\ last.wire = <<last.req>>
    /\ \A e \in Times :
         LET self == [last.pre EXCEPT !.expires = e]
         IN  /\ RequestOf(last.op, self, last.arg) = last.req
             /\ OutcomeOf(last.op, self, last.arg, last.resp) = last.out

\* a send answered with results on a handle whose expiry lies before the
\* instant at which the program created it
C32_Witness ==
  /\ last.op = "send"
  /\ last.pre.expires < history[last.tx].born
  /\ Len(last.pre.statements) > 0
  /\ last.out.kind = "Ok"

\* C33: commit and rollback consume the Started handle whether they
\* succeed or fail: afterwards the caller holds no handle for that
\* transaction, and the only request the call put on the wire is its own
\* (for commit a POST, so no DELETE of the resource follows a failed
\* commit).
C33_ClosingConsumesOnFailure ==
  (last.op \in {"commit", "rollback"}) =>
    /\ tx[last.tx] = Gone("Consumed")
    /\ last.wire = <<last.req>>
    /\ last.op = "commit" => \A m \in Range(last.wire) : m.method = "POST"

\* a commit of a pending statement that the server answered with errors
C33_Witness ==
  /\ last.op = "commit"
  /\ Len(last.pre.statements) > 0
  /\ last.out.kind = "Neo4j"
  /\ tx[last.tx].state = "Consumed"

\* the 0-based indexes at which the columns carry the name
Occurrences(columns, name) == {i \in 0..(Len(columns) - 1) : columns[i + 1] = name}

C35_GarbageIsSerdeError ==
  (/\ last.op \in DecodingOps \cup {"cypher_exec"}
   /\ last.resp.net
   /\ ~last.resp.body.json) =>
    /\ last.out = Err("Serde")
    /\ last.out.kind # "Neo4j"
    /\ last.out.results = << >>
    /\ last.op = "send" => tx[last.tx].expires = last.pre.expires

\* a send of a buffered statement answered with a body that is not JSON,
\* on a handle whose expiry is not the default
C35_Witness ==
  /\ last.op = "send"
  /\ last.resp.net
  /\ ~last.resp.body.json
  /\ Len(last.pre.statements) > 0
  /\ last.pre.expires = MaxTime
  /\ tx[last.tx].expires = MaxTime
  /\ last.out.kind = "Serde"

\* C36: remove_param(key) leaves the text and every other parameter as
\* they were and the key without a parameter; when the key had none the
\* statement is as before, and removing the key once more changes nothing.
C36_RemoveParamExactlyOne ==
  pcall.op = "remove_param" =>
    /\ stmt.live
    /\ stmt.statement = pcall.pre.statement
    /\ \A k \in Keys :
         stmt.parameters[k] = (IF k = pcall.key THEN NoParam ELSE pcall.pre.parameters[k])
    /\ pcall.pre.parameters[pcall.key] = NoParam => stmt = pcall.pre
    /\ remove_param(stmt, pcall.key) = stmt

\* one of two parameters removed
C36_Witness ==
  /\ pcall.op = "remove_param"
  /\ pcall.key = "k1"
  /\ pcall.pre.parameters["k1"] # NoParam
  /\ pcall.pre.parameters["k2"] # NoParam
  /\ stmt.parameters["k1"] = NoParam
  /\ stmt.parameters["k2"] = pcall.pre.parameters["k2"]

\* Statement::new(text) followed by add_param of the pairs from i on, each
\* on the statement the one before left
RECURSIVE AddInOrder(_, _, _)
AddInOrder(self, pairs, i) ==
  IF i > Len(pairs) THEN self
  ELSE AddInOrder(add_param(self, pairs[i].key, pairs[i].value).self, pairs, i + 1)

\* the positions of the pairs whose add_param fails
Failing(pairs) == {i \in 1..Len(pairs) : ~to_value(pairs[i].value).ok}

\* C37: cypher_stmt!(text, {pairs}) is Statement::new(text) followed by
\* add_param of the pairs in order: when none fails it hands out that
\* statement, having made one add_param call per pair; when the first
\* failure is at position j it hands out an error and no statement, and
\* has made j add_param calls and none after.
C37_MacroIsNewThenAdds ==
  pcall.op = "cypher_stmt" =>
    IF Failing(pcall.pairs) = {}
    THEN /\ pcall.ok
         /\ stmt = AddInOrder(statement_new(pcall.writes.text), pcall.pairs, 1)
         /\ pcall.calls = Len(pcall.pairs)
    ELSE /\ ~pcall.ok
         /\ ~stmt.live
         /\ stmt = NoStatement
         /\ \A j \in Failing(pcall.pairs) : pcall.calls <= j
         /\ pcall.calls \in Failing(pcall.pairs)

\* a good pair followed by one that cannot be serialized
C37_Witness ==
  /\ pcall.op = "cypher_stmt"
  /\ Len(pcall.pairs) = 2
  /\ to_value(pcall.pairs[1].value).ok
  /\ ~to_value(pcall.pairs[2].value).ok
  /\ ~pcall.ok
  /\ pcall.calls = 2
  /\ ~stmt.live

\* C38: set_parameters(params) makes the parameter map the serialized
\* entries of params and nothing else, the text as it was; when an entry
\* cannot be serialized it fails and the statement is as before the call.
C38_SetParametersAllOrNothing ==
  pcall.op = "set_parameters" =>
    IF \E k \in Keys : pcall.value[k] # NoValue /\ ~to_value(pcall.value[k]).ok
    THEN ~pcall.ok /\ stmt = pcall.pre
    ELSE /\ pcall.ok
         /\ stmt.live
         /\ stmt.statement = pcall.pre.statement
         /\ \A k \in Keys :
              stmt.parameters[k] = (IF pcall.value[k] = NoValue THEN NoParam
                                    ELSE to_value(pcall.value[k]).value)

\* a map with an entry that cannot be serialized, given to a statement
\* that has a parameter
C38_Witness ==
  /\ pcall.op = "set_parameters"
  /\ ~pcall.ok
  /\ pcall.value["k2"] # NoValue
  /\ pcall.value["k1"] = NoValue
  /\ pcall.pre.parameters["k1"] # NoParam
  /\ stmt.parameters["k1"] = pcall.pre.parameters["k1"]

\* C39: query of the Transaction of transaction.rs posts its statements to
\* the resource URI given by the Location header at begin, which is not the
\* commit URI, and leaves the server's transaction open when the server
\* answered; a rollback that succeeded leaves none of the transaction's
\* effects in the data.
C39_LegacyQueryPostsToResource ==
  /\ last.op = "legacy_query" =>
       /\ last.req.method = "POST"
       /\ last.req.uri = located[last.tx]
       /\ last.req.uri # last.pre.commit
       /\ last.req.body = last.arg
       /\ (last.resp.net /\ located[last.tx].id > 0) =>
            store.open[located[last.tx].id].state = "open"
  /\ (last.op = "legacy_rollback" /\ last.out.kind = "Ok") =>
       \A e \in store.db : e.tx # history[last.tx].commit.id

\* C40: send_query on a batch with a statement that has recorded parameter
\* errors fails with the error naming the first recorded parameter of the
\* first such statement and its query, puts no request on the wire, and
\* does not panic, however many errors are recorded.
C40_ParamErrorsReported ==
  (last.op = "send_query" /\ first_with_param_errors(last.arg) > 0) =>
    LET failing == last.arg[first_with_param_errors(last.arg)]
    IN  /\ last.out.kind # "Panic"
        /\ last.out = ParamError(failing.param_errors[1], failing.statement)
        /\ last.wire = << >>
====
